---- MODULE Spec2Model ----
(***************************************************************************)
(* The Tablecheck dashboard script (src/tablecheck_dashboard_app.py) as a  *)
(* state machine.  One run of the script is one behaviour: the fetched     *)
(* records become raw_tablecheck_df, and the script then walks through its *)
(* blocks (question 1 .. question 5b and the closing texts), each block    *)
(* handing text, metrics and tables to Streamlit.  An uncaught exception   *)
(* ends the run where it is raised; what was rendered before stays.        *)
(*                                                                         *)
(* A DataFrame is [columns, index, rows]: the set of column labels, the    *)
(* sequence of index labels and the sequence of rows.  A row is a function *)
(* from the columns that hold a value in it to that value: a column that   *)
(* is not in the DOMAIN of a row is NaN there.  food_cost is counted in    *)
(* half yen, so that a sum may have a fractional part for int() to cut.    *)
(***************************************************************************)
EXTENDS Integers, Sequences, FiniteSets, TLC

\* Longest fetched table of complete records.
MaxRows == 3
\* Longest fetched table whose records may lack fields.
MaxRawRows == 2

Columns == {"first_name", "restaurant_names", "food_names", "food_cost"}

Target == "the-restaurant-at-the-end-of-the-universe"

Customers == {"Arthur", "Michael"}
Restaurants == {"bean-juice-stand", Target}
Foods == {"chai", "sushi"}
\* 500.5 yen and 1001 yen, in half yen.
Costs == {1001, 2002}

\* The strings of the model in the order Python's str comparison gives them.
NameOrder ==
    << "Arthur", "Michael", "bean-juice-stand", "chai", "sushi", Target >>

RankOf ==
    [s \in {NameOrder[i] : i \in 1..Len(NameOrder)} |->
        CHOOSE i \in 1..Len(NameOrder) : NameOrder[i] = s]

Rank(s) == RankOf[s]

Range(s) == {s[i] : i \in 1..Len(s)}

Restrict(r, D) == [c \in D |-> r[c]]

\* The sequence with the elements of f, held as a tuple.
List(f) == << >> \o f

\* F of the value of v, with v evaluated once.
With(v, F(_)) == CHOOSE r \in {F(x) : x \in {v}} : TRUE

(***************************************************************************)
(* What the record source can answer.                                      *)
(***************************************************************************)
CompleteRecords ==
    [first_name : Customers, restaurant_names : Restaurants,
     food_names : Foods, food_cost : Costs]

\* Records in which any field may be missing.
PartialRecords ==
    LET r == [first_name |-> "Arthur", restaurant_names |-> Target,
              food_names |-> "sushi", food_cost |-> 2002]
    IN  {Restrict(r, D) : D \in SUBSET Columns}

\* The fetch fails, or answers a table of complete records, or answers a
\* table in which records lack fields.
IsResponse(r) ==
    \/ r = [ok |-> FALSE, data |-> << >>]
    \/ \E k \in 0..MaxRows : \E d \in [1..k -> CompleteRecords] :
           r = [ok |-> TRUE, data |-> d]
    \/ \E k \in 0..MaxRawRows : \E d \in [1..k -> PartialRecords] :
           r = [ok |-> TRUE, data |-> d]

(***************************************************************************)
(* pandas                                                                  *)
(***************************************************************************)
EmptyFrame == [columns |-> {}, index |-> << >>, rows |-> << >>]

\* pd.DataFrame(list of dicts): the columns are the keys that occur, a key a
\* record lacks is NaN in its row, the index is 0..n-1.
DataFrame(data) ==
    [columns |-> UNION {DOMAIN data[i] : i \in 1..Len(data)},
     index   |-> List([i \in 1..Len(data) |-> i - 1]),
     rows    |-> data]

IsNull(row, c) == c \notin DOMAIN row

\* The rows of df at the positions ps, with their index labels.
Take(df, ps) ==
    [columns |-> df.columns,
     index   |-> List([k \in 1..Len(ps) |-> df.index[ps[k]]]),
     rows    |-> List([k \in 1..Len(ps) |-> df.rows[ps[k]]])]

\* The numbers of S in ascending order.
Ascending(S) ==
    List([k \in 1..Cardinality(S) |->
             CHOOSE x \in S : Cardinality({y \in S : y < x}) = k - 1])

\* df[mask]: boolean indexing keeps the rows whose mask is True.
BooleanIndex(df, mask) ==
    With(Ascending({i \in 1..Len(df.rows) : mask[i]}), LAMBDA ps : Take(df, ps))

\* df.loc[labels]: the rows that carry the labels, in the order of the labels.
Loc(df, labels) ==
    With(List([k \in 1..Len(labels) |->
                  CHOOSE p \in 1..Len(df.index) : df.index[p] = labels[k]]),
         LAMBDA ps : Take(df, ps))

\* reset_index(drop=True): the index becomes 0..n-1.
ResetIndex(df) ==
    [df EXCEPT !.index = List([i \in 1..Len(df.rows) |-> i - 1])]

\* Series.count(): the cells that are not NaN.
Count(df, c) == Cardinality({i \in 1..Len(df.rows) : ~IsNull(df.rows[i], c)})

\* The cells of column c in the rows at the positions i, i+1, ... that are
\* in S, added up; a NaN cell adds nothing.
RECURSIVE SumOver(_, _, _, _)
SumOver(rows, c, i, S) ==
    IF i > Len(rows) THEN 0
    ELSE (IF i \in S /\ ~IsNull(rows[i], c) THEN rows[i][c] ELSE 0)
         + SumOver(rows, c, i + 1, S)

\* Series.sum(): NaN cells are skipped, the sum of nothing is 0.
Sum(df, c) == SumOver(df.rows, c, 1, 1..Len(df.rows))

\* Series.min() in the place of Series.max().
Min(df, c) ==
    With({df.rows[i][c] : i \in 1..Len(df.rows)},
         LAMBDA vs : {v \in vs : \A w \in vs : v <= w})

\* Series.max(): NaN for an empty Series, held here as the empty set; a
\* comparison with NaN is False.
Max(df, c) ==
    With({df.rows[i][c] : i \in 1..Len(df.rows)},
         LAMBDA vs : {v \in vs : \A w \in vs : w <= v})

\* A row has a key under groupby(by) when none of the key cells is NaN.
HasKey(row, by) == \A k \in 1..Len(by) : ~IsNull(row, by[k])

KeyOf(row, by) == List([k \in 1..Len(by) |-> row[by[k]]])

\* The key of every row of df under groupby(by); the empty tuple for a row
\* that groupby drops (dropna=True).
RowKeys(df, by) ==
    List([i \in 1..Len(df.rows) |->
             IF HasKey(df.rows[i], by) THEN KeyOf(df.rows[i], by) ELSE << >>])

\* Tuples of strings in lexicographic order.
KeyLess(a, b) ==
    \E k \in 1..Len(a) :
        /\ Rank(a[k]) < Rank(b[k])
        /\ \A j \in 1..(k - 1) : a[j] = b[j]

\* groupby sorts the group keys (sort=True).
SortKeys(S) ==
    List([k \in 1..Cardinality(S) |->
             CHOOSE x \in S : Cardinality({y \in S : KeyLess(y, x)}) = k - 1])

\* The groups of groupby(by), in order, given the keys of the rows.
GroupKeys(keys) == SortKeys(Range(keys) \ {<< >>})

\* The positions of the rows of one group.
GroupMembers(keys, key) == {i \in 1..Len(keys) : keys[i] = key}

\* One row of a grouped table after reset_index: the key columns and the
\* aggregate.
GroupRow(by, key, name, value) ==
    (name :> value)
    @@ [c \in Range(by) |-> key[CHOOSE k \in 1..Len(by) : by[k] = c]]

\* df.groupby(by).size().reset_index(name=name)
GroupBySize(df, by, name) ==
    With(RowKeys(df, by), LAMBDA keys :
    With(GroupKeys(keys), LAMBDA groups :
        [columns |-> Range(by) \cup {name},
         index   |-> List([i \in 1..Len(groups) |-> i - 1]),
         rows    |-> List([i \in 1..Len(groups) |->
                        GroupRow(by, groups[i], name,
                                 Cardinality(GroupMembers(keys, groups[i])))])]))

\* df.groupby(by).agg(name=(c, 'sum')).reset_index()
GroupBySum(df, by, c, name) ==
    With(RowKeys(df, by), LAMBDA keys :
    With(GroupKeys(keys), LAMBDA groups :
        [columns |-> Range(by) \cup {name},
         index   |-> List([i \in 1..Len(groups) |-> i - 1]),
         rows    |-> List([i \in 1..Len(groups) |->
                        GroupRow(by, groups[i], name,
                                 SumOver(df.rows, c, 1,
                                         GroupMembers(keys, groups[i])))])]))

\* idxmin in the place of idxmax: the first row that holds the group's minimum.
FirstMin(df, members, c) ==
    With({i \in members : \A j \in members : df.rows[i][c] <= df.rows[j][c]},
         LAMBDA best : df.index[CHOOSE i \in best : \A j \in best : i <= j])

\* The last row, not the first, that holds the group's maximum.
LastMax(df, members, c) ==
    With({i \in members : \A j \in members : df.rows[j][c] <= df.rows[i][c]},
         LAMBDA best : df.index[CHOOSE i \in best : \A j \in best : j <= i])

\* idxmax of one group: the index label of the first row, in the row order
\* of df, that holds the group's maximum.
FirstMax(df, members, c) ==
    With({i \in members : \A j \in members : df.rows[j][c] <= df.rows[i][c]},
         LAMBDA best : df.index[CHOOSE i \in best : \A j \in best : i <= j])

\* df.groupby(g)[c].idxmax(): one label per group, the groups in sorted order.
IdxMax(df, g, c) ==
    With(RowKeys(df, << g >>), LAMBDA keys :
    With(GroupKeys(keys), LAMBDA groups :
        List([k \in 1..Len(groups) |->
                 With(GroupMembers(keys, groups[k]),
                      LAMBDA members : FirstMax(df, members, c))])))

\* Position i comes before position j when df is sorted on column c.
SortsBefore(df, c, i, j) ==
    \/ Rank(df.rows[i][c]) < Rank(df.rows[j][c])
    \/ Rank(df.rows[i][c]) = Rank(df.rows[j][c]) /\ i < j

\* df.sort_values(c): the rows in ascending order of column c.
SortValues(df, c) ==
    With(List([k \in 1..Len(df.rows) |->
                  CHOOSE i \in 1..Len(df.rows) :
                      Cardinality({j \in 1..Len(df.rows) : SortsBefore(df, c, j, i)})
                          = k - 1]),
         LAMBDA ps : Take(df, ps))

(***************************************************************************)
(* Python formatting                                                       *)
(***************************************************************************)
Digits == << "0", "1", "2", "3", "4", "5", "6", "7", "8", "9" >>

RECURSIVE Decimal(_)
Decimal(n) ==
    IF n < 10 THEN << Digits[n + 1] >>
    ELSE Decimal(n \div 10) \o << Digits[(n % 10) + 1] >>

\* '{:,}'.format(n): the decimal digits, a comma before every group of three.
RECURSIVE ThousandsFormat(_)
ThousandsFormat(n) ==
    IF n < 1000 THEN Decimal(n)
    ELSE ThousandsFormat(n \div 1000)
         \o << ",", Digits[((n % 1000) \div 100) + 1],
               Digits[((n % 100) \div 10) + 1], Digits[(n % 10) + 1] >>

\* int(): cuts the fraction of an amount held in half yen.
IntOf(halves) == halves \div 2

(***************************************************************************)
(* The script                                                              *)
(***************************************************************************)
VARIABLES
    response,   \* what get_supabase_data() answers in this run
    pc,         \* the block of the script that runs next
    globals,    \* the module's names that are bound, with their DataFrames
    rendered,   \* the elements handed to Streamlit so far, in order
    error       \* the uncaught exception that ended the run, if any

vars == << response, pc, globals, rendered, error >>

NoError == [kind |-> "none", at |-> "none"]

\* name = df at module level: the name is bound, or bound anew, to df.
Bind(name, df) == (name :> df) @@ globals

\* A bare string literal is written to the page by Streamlit's magic.
Markdown(text) == [kind |-> "markdown", text |-> text]
\* st.metric(label, value, border=True)
Metric(label, value) == [kind |-> "metric", label |-> label, value |-> value]
\* st.write(text)
Write(text) == [kind |-> "write", text |-> text]
\* st.dataframe(df, width="stretch")
Dataframe(name, df) == [kind |-> "dataframe", of |-> name, frame |-> df]

Spacer == << Markdown(""), Markdown("") >>

Init ==
    /\ IsResponse(response)
    /\ pc = "load"
    /\ globals = << >>
    /\ rendered = << >>
    /\ error = NoError

\* Line 68: raw_tablecheck_df = get_tablecheck_data().  A failed fetch raises
\* out of get_supabase_data(); nothing checks the records.
Load ==
    /\ pc = "load"
    /\ IF response.ok
       THEN /\ globals' = Bind("raw_tablecheck_df", DataFrame(response.data))
            /\ pc' = "question1"
            /\ error' = error
       ELSE /\ globals' = globals
            /\ pc' = "error"
            /\ error' = [kind |-> "fetch", at |-> "load"]
    /\ UNCHANGED << response, rendered >>

Raise(kind, shown) ==
    /\ pc' = "error"
    /\ error' = [kind |-> kind, at |-> pc]
    /\ rendered' = shown
    /\ UNCHANGED << response, globals >>

\* Question 1 with the filtered rows assigned back to raw_tablecheck_df.
Question1InPlace ==
    /\ pc = "question1"
    /\ LET raw == globals.raw_tablecheck_df
           shown == rendered \o << Markdown("Tablecheck Dashboard") >> \o Spacer
                    \o << Markdown("1. How many customers visited") >>
       IN  IF "restaurant_names" \notin raw.columns
           THEN Raise("KeyError", shown)
           ELSE \E rest \in {BooleanIndex(raw,
                              [i \in 1..Len(raw.rows) |->
                                 /\ ~IsNull(raw.rows[i], "restaurant_names")
                                 /\ raw.rows[i].restaurant_names = Target])} :
                    /\ globals' = ("raw_tablecheck_df" :> rest)
                                   @@ Bind("rest_a_end_ot_uni_df", rest)
                    /\ rendered' = shown \o
                         << Metric("customer traffic",
                                   ThousandsFormat(Count(rest, "restaurant_names"))) >>
                    /\ pc' = "question2"
                    /\ UNCHANGED << response, error >>

\* Lines 70-87: the title, question 1, the filter on the restaurant, the
\* traffic metric.
Question1 ==
    /\ pc = "question1"
    /\ LET raw == globals.raw_tablecheck_df
           shown == rendered \o << Markdown("Tablecheck Dashboard") >> \o Spacer
                    \o << Markdown("1. How many customers visited") >>
       IN  IF "restaurant_names" \notin raw.columns
           THEN Raise("KeyError", shown)
           ELSE \E rest \in {BooleanIndex(raw,
                              [i \in 1..Len(raw.rows) |->
                                 /\ ~IsNull(raw.rows[i], "restaurant_names")
                                 /\ raw.rows[i].restaurant_names = Target])} :
                    /\ globals' = Bind("rest_a_end_ot_uni_df", rest)
                    /\ rendered' = shown \o
                         << Metric("customer traffic",
                                   ThousandsFormat(Count(rest, "restaurant_names"))) >>
                    /\ pc' = "question2"
                    /\ UNCHANGED << response, error >>

\* Lines 89-95: question 2, the earnings metric over the same filtered rows.
Question2 ==
    /\ pc = "question2"
    /\ LET rest == globals.rest_a_end_ot_uni_df
           shown == rendered \o Spacer
                    \o << Markdown("2. How much money did the restaurant make") >>
       IN  IF "food_cost" \notin rest.columns
           THEN Raise("KeyError", shown)
           ELSE /\ rendered' = shown \o
                     << Metric("total earnings",
                               << "¥" >> \o
                               ThousandsFormat(IntOf(Sum(rest, "food_cost")))) >>
                /\ pc' = "question3"
                /\ UNCHANGED << response, globals, error >>

\* The rows of a grouped table that idxmax picks, one per restaurant.
ArgMaxRows(df, c) ==
    With(IdxMax(df, "restaurant_names", c), LAMBDA labels : Loc(df, labels))

\* What st.dataframe is given: sort_values("restaurant_names") and
\* reset_index(drop=True).
Presented(df) ==
    With(SortValues(df, "restaurant_names"), LAMBDA sorted : ResetIndex(sorted))

\* Lines 97-128: question 3, the orders per (restaurant, food), the most
\* ordered food of each restaurant.
Question3 ==
    /\ pc = "question3"
    /\ LET raw == globals.raw_tablecheck_df
           shown == rendered \o Spacer
                    \o << Markdown("3. What was the most popular dish") >>
       IN  IF ~({"restaurant_names", "food_names"} \subseteq raw.columns)
           THEN Raise("KeyError", shown)
           ELSE \E counts \in {GroupBySize(raw, << "restaurant_names", "food_names" >>,
                                             "order_count")} :
                \E best \in {ArgMaxRows(counts, "order_count")} :
                    /\ globals' = ("food_counts_df" :> counts)
                                    @@ ("most_popular_dishes_df" :> best)
                                    @@ globals
                    /\ rendered' = shown \o
                         << Write("Most popular dish at each restaurant:"),
                            Dataframe("most_popular_dishes_df", Presented(best)) >>
                    /\ pc' = "question4"
                    /\ UNCHANGED << response, error >>

\* Lines 130-174: question 4, the summed food_cost per (restaurant, food),
\* the food with the highest sum of each restaurant.
Question4 ==
    /\ pc = "question4"
    /\ LET raw == globals.raw_tablecheck_df
           shown == rendered \o Spacer
                    \o << Markdown("4. What was the most profitable dish") >>
       IN  IF ~({"restaurant_names", "food_names", "food_cost"} \subseteq raw.columns)
           THEN Raise("KeyError", shown)
           ELSE \E sums \in {GroupBySum(raw, << "restaurant_names", "food_names" >>,
                                          "food_cost", "food_cost_sum")} :
                \E best \in {ArgMaxRows(sums, "food_cost_sum")} :
                    /\ globals' = ("food_sums_df" :> sums)
                                    @@ ("most_profitable_dishes_df" :> best)
                                    @@ globals
                    /\ rendered' = shown \o Spacer \o
                         << Write("Most 'profitable' dish at each restaurant:"),
                            Dataframe("most_profitable_dishes_df", Presented(best)) >>
                    /\ pc' = "question5a"
                    /\ UNCHANGED << response, error >>

\* Lines 176-202: question 5a, the visits per (customer, restaurant), the
\* most frequent customer of each restaurant.
Question5a ==
    /\ pc = "question5a"
    /\ LET raw == globals.raw_tablecheck_df
           shown == rendered \o Spacer
                    \o << Markdown("5a. Who visited each store the most?") >>
       IN  IF ~({"first_name", "restaurant_names"} \subseteq raw.columns)
           THEN Raise("KeyError", shown)
           ELSE \E counts \in {GroupBySize(raw, << "first_name", "restaurant_names" >>,
                                             "order_count")} :
                \E best \in {ArgMaxRows(counts, "order_count")} :
                    /\ globals' = ("customer_restarant_counts_df" :> counts)
                                    @@ ("customer_restarant_max_count_df" :> best)
                                    @@ globals
                    /\ rendered' = shown \o
                         << Write("Who visited each store the most?"),
                            Dataframe("customer_restarant_max_count_df", Presented(best)) >>
                    /\ pc' = "question5b"
                    /\ UNCHANGED << response, error >>

\* Lines 204-225: question 5b, the visits per customer, every customer that
\* holds the maximum.
Question5b ==
    /\ pc = "question5b"
    /\ LET raw == globals.raw_tablecheck_df
           shown == rendered \o Spacer
                    \o << Markdown("5b. Who has the highest cumulative sum of visits?") >>
       IN  IF "first_name" \notin raw.columns
           THEN Raise("KeyError", shown)
           ELSE \E totals \in {GroupBySize(raw, << "first_name" >>, "total_visits")} :
                \E top \in {Max(totals, "total_visits")} :
                \E most \in {BooleanIndex(totals,
                              [i \in 1..Len(totals.rows) |->
                                 totals.rows[i].total_visits \in top])} :
                    /\ globals' = ("total_visits_df" :> totals)
                                    @@ ("customer_with_most_visits_df" :> most)
                                    @@ globals
                    /\ rendered' = shown \o
                         << Write("Customer with the most visits (all stores):"),
                            Dataframe("customer_with_most_visits_df", ResetIndex(most)) >>
                    /\ pc' = "closing"
                    /\ UNCHANGED << response, error >>

\* Lines 227-276: the two closing texts; the script ends.
Closing ==
    /\ pc = "closing"
    /\ rendered' = rendered \o Spacer
                   \o << Markdown("How would you build this differently") >>
                   \o Spacer
                   \o << Markdown("How would you improve the deployment") >>
    /\ pc' = "done"
    /\ UNCHANGED << response, globals, error >>

Next ==
    \/ Load
    \/ Question1
    \/ Question2
    \/ Question3
    \/ Question4
    \/ Question5a
    \/ Question5b
    \/ Closing

Spec == Init /\ [][Next]_vars

(***************************************************************************)
(* Vocabulary of the properties.  The aggregates below are counted on the  *)
(* fetched records themselves, without the pandas operators above.         *)
(***************************************************************************)
Data == response.data

\* The fetch answered a Dataset: every record has the four fields.
IsDataset == response.ok /\ \A i \in 1..Len(Data) : DOMAIN Data[i] = Columns

Bound(name) == name \in DOMAIN globals

Metrics(label) ==
    {rendered[i].value :
        i \in {j \in 1..Len(rendered) :
                  rendered[j].kind = "metric" /\ rendered[j].label = label}}

Tables(name) ==
    {rendered[i].frame :
        i \in {j \in 1..Len(rendered) :
                  rendered[j].kind = "dataframe" /\ rendered[j].of = name}}

DigitValue(ch) == (CHOOSE d \in 1..Len(Digits) : Digits[d] = ch) - 1

\* The number a string of digits and separating commas writes.
RECURSIVE Number(_)
Number(chars) ==
    IF chars = << >> THEN 0
    ELSE LET init == SubSeq(chars, 1, Len(chars) - 1)
             last == chars[Len(chars)]
         IN  IF last = "," THEN Number(init)
             ELSE 10 * Number(init) + DigitValue(last)

TargetRows == {i \in 1..Len(Data) : Data[i].restaurant_names = Target}

\* The food_cost of the rows i, i+1, ... that are in S, added up.
RECURSIVE CostFrom(_, _)
CostFrom(i, S) ==
    IF i > Len(Data) THEN 0
    ELSE (IF i \in S THEN Data[i].food_cost ELSE 0) + CostFrom(i + 1, S)

CostOver(S) == CostFrom(1, S)

RestaurantsPresent == {Data[i].restaurant_names : i \in 1..Len(Data)}
CustomersPresent ==
    {Data[i].first_name :
        i \in {j \in 1..Len(Data) : "first_name" \in DOMAIN Data[j]}}

OrderCount(r, f) ==
    Cardinality({i \in 1..Len(Data) :
                    Data[i].restaurant_names = r /\ Data[i].food_names = f})

FoodCostSum(r, f) ==
    CostOver({i \in 1..Len(Data) :
                 Data[i].restaurant_names = r /\ Data[i].food_names = f})

VisitCount(r, c) ==
    Cardinality({i \in 1..Len(Data) :
                    Data[i].restaurant_names = r /\ Data[i].first_name = c})

TotalVisits(c) ==
    Cardinality({i \in 1..Len(Data) :
                    "first_name" \in DOMAIN Data[i] /\ Data[i].first_name = c})

\* df has one row for every restaurant of the Dataset and for no other, and
\* the row names a candidate whose aggregate no candidate of the restaurant
\* exceeds.
OneBestRowPerRestaurant(df, who, what, candidates, Agg(_, _)) ==
    /\ \A r \in RestaurantsPresent :
           Cardinality({i \in 1..Len(df.rows) : df.rows[i].restaurant_names = r}) = 1
    /\ \A i \in 1..Len(df.rows) :
           /\ df.rows[i].restaurant_names \in RestaurantsPresent
           /\ df.rows[i][what] = Agg(df.rows[i].restaurant_names, df.rows[i][who])
           /\ \A x \in candidates :
                  Agg(df.rows[i].restaurant_names, x) <= df.rows[i][what]

(***************************************************************************)
(* C1.  For every Dataset the traffic metric of question 1 is the number   *)
(* of rows whose restaurant is exactly the target; with no such row it is  *)
(* 0 and no error is raised.                                               *)
(***************************************************************************)
C1_TrafficIsMatchingRowCount ==
    (IsDataset /\ pc \notin {"load", "question1"}) =>
        /\ error.at # "question1"
        /\ Metrics("customer traffic") # {}
        /\ \A v \in Metrics("customer traffic") : Number(v) = Cardinality(TargetRows)

\* C1 on the Datasets that hold at least one row.
C1_TrafficOfNonEmptyDataset ==
    (IsDataset /\ Data # << >>) => C1_TrafficIsMatchingRowCount

(***************************************************************************)
(* C2.  For every Dataset the earnings metric of question 2 is the sum of  *)
(* food_cost over the rows question 1 selected, cut to an integer; with no *)
(* such row it is 0.                                                       *)
(***************************************************************************)
C2_EarningsIsTruncatedSum ==
    (IsDataset /\ pc \notin {"load", "question1", "question2"}) =>
        /\ error.at \notin {"question1", "question2"}
        /\ Metrics("total earnings") # {}
        /\ \A v \in Metrics("total earnings") :
               /\ Head(v) = "¥"
               /\ Number(Tail(v)) = CostOver(TargetRows) \div 2

\* C2 on the Datasets that hold at least one row.
C2_EarningsOfNonEmptyDataset ==
    (IsDataset /\ Data # << >>) => C2_EarningsIsTruncatedSum

(***************************************************************************)
(* C3.  Questions 3, 4 and 5a each give exactly one row for every          *)
(* restaurant of the Dataset and none for any other restaurant, and the    *)
(* aggregate of that row (orders of the food, summed cost of the food,     *)
(* visits of the customer) is at least that of every other candidate of    *)
(* the restaurant.                                                         *)
(***************************************************************************)
C3_OneBestRowPerRestaurant ==
    (IsDataset /\ pc = "done") =>
        /\ OneBestRowPerRestaurant(globals.most_popular_dishes_df,
                                   "food_names", "order_count", Foods, OrderCount)
        /\ OneBestRowPerRestaurant(globals.most_profitable_dishes_df,
                                   "food_names", "food_cost_sum", Foods, FoodCostSum)
        /\ OneBestRowPerRestaurant(globals.customer_restarant_max_count_df,
                                   "first_name", "order_count", Customers,
                                   LAMBDA r, c : VisitCount(r, c))
        /\ \A name \in {"most_popular_dishes_df", "most_profitable_dishes_df",
                        "customer_restarant_max_count_df"} :
               \A shown \in Tables(name) :
                   {shown.rows[i] : i \in 1..Len(shown.rows)}
                       = {globals[name].rows[i] : i \in 1..Len(globals[name].rows)}

\* Two restaurants, and in one of them a food whose summed cost exceeds that
\* of another food that was ordered too; all three questions have answered.
C3_Witness ==
    /\ IsDataset
    /\ pc = "done"
    /\ Cardinality(RestaurantsPresent) = 2
    /\ \E r \in RestaurantsPresent : \E f, g \in Foods :
           0 < FoodCostSum(r, g) /\ FoodCostSum(r, g) < FoodCostSum(r, f)
    /\ Len(globals.most_popular_dishes_df.rows) = 2
    /\ Len(globals.most_profitable_dishes_df.rows) = 2
    /\ Len(globals.customer_restarant_max_count_df.rows) = 2

(***************************************************************************)
(* C4.  The answer of question 5b holds a customer exactly when the        *)
(* customer's number of rows over all restaurants is the greatest of all   *)
(* customers; customers that tie at the greatest number all appear.        *)
(***************************************************************************)
C4_AllCustomersAtTheMaximum ==
    pc = "done" =>
        LET answer == globals.customer_with_most_visits_df
            named == {answer.rows[i].first_name : i \in 1..Len(answer.rows)}
        IN  /\ named \subseteq CustomersPresent
            /\ \A c \in CustomersPresent :
                   c \in named <=>
                       \A d \in CustomersPresent : TotalVisits(d) <= TotalVisits(c)
            /\ \A i \in 1..Len(answer.rows) :
                   answer.rows[i].total_visits = TotalVisits(answer.rows[i].first_name)
            /\ Tables("customer_with_most_visits_df") = {ResetIndex(answer)}

\* Two customers tie at the maximum and both are in the answer.
C4_WitnessTie ==
    /\ pc = "done"
    /\ Cardinality(CustomersPresent) = 2
    /\ \A c, d \in CustomersPresent : TotalVisits(c) = TotalVisits(d)
    /\ Len(globals.customer_with_most_visits_df.rows) = 2

\* One customer has more rows than the other, and only the first is in the
\* answer.
C4_Witness ==
    /\ pc = "done"
    /\ Cardinality(CustomersPresent) = 2
    /\ \E c, d \in CustomersPresent : TotalVisits(c) < TotalVisits(d)
    /\ Len(globals.customer_with_most_visits_df.rows) = 1

(***************************************************************************)
(* C5.  Question 6 compares the named customer "Michael" with the global   *)
(* top single-restaurant visitor: the named customer's count is the        *)
(* greatest count of its (customer, restaurant) pairs, 0 without rows; the *)
(* global top is the first pair with the greatest count; the answer is     *)
(* negative exactly when the top customer is the named one, names compared *)
(* in lower case, and otherwise the comparison with the winning row.       *)
(***************************************************************************)
Lower(name) == IF name = "Michael" THEN "michael" ELSE "arthur"

\* The answer the comparison has to give on the fetched records.
Q6Answer ==
    LET pairs == {<< Data[i].first_name, Data[i].restaurant_names >> : i \in 1..Len(Data)}
        count(p) == VisitCount(p[2], p[1])
        named == {count(p) : p \in {q \in pairs : Lower(q[1]) = "michael"}}
        best == {p \in pairs : \A q \in pairs : count(q) <= count(p)}
        top == {p \in best : \A q \in best \ {p} : KeyLess(p, q)}
    IN  [kind |-> "comparison",
         named_count |-> IF named = {} THEN 0
                         ELSE CHOOSE n \in named : \A m \in named : m <= n,
         negative |-> \E p \in top : Lower(p[1]) = "michael",
         winner |-> top]

C5_NamedCustomerComparison ==
    (IsDataset /\ Data # << >> /\ pc = "done") =>
        \E i \in 1..Len(rendered) :
            /\ rendered[i].kind = "comparison"
            /\ rendered[i] = Q6Answer

(***************************************************************************)
(* C6.  Once the Dataset is built no query fails, the empty Dataset        *)
(* included: on it question 1 gives 0, question 2 gives 0, and questions   *)
(* 3, 4, 5a and 5b each give an empty table.                               *)
(***************************************************************************)
C6_NoQueryFails ==
    IsDataset =>
        /\ error = NoError
        /\ (Data = << >> /\ pc = "done") =>
               /\ \A v \in Metrics("customer traffic") : Number(v) = 0
               /\ \A v \in Metrics("total earnings") : Number(Tail(v)) = 0
               /\ \A name \in {"most_popular_dishes_df", "most_profitable_dishes_df",
                               "customer_restarant_max_count_df",
                               "customer_with_most_visits_df"} :
                      /\ Tables(name) # {}
                      /\ \A t \in Tables(name) : t.rows = << >>

\* C6 on the Datasets that hold at least one row.
C6_NoQueryFailsOnNonEmptyDataset ==
    (IsDataset /\ Data # << >>) => error = NoError

(***************************************************************************)
(* C7.  When the fetch fails, a column is absent or a value cannot be      *)
(* coerced, nothing of the report reaches Streamlit: a run never ends in   *)
(* an error with a metric or a table already rendered.                     *)
(***************************************************************************)
C7_NoPartialReport ==
    error # NoError =>
        \A i \in 1..Len(rendered) : rendered[i].kind \notin {"metric", "dataframe"}

(***************************************************************************)
(* C8.  Building the Dataset fails at load time whenever a fetched record  *)
(* lacks one of the four fields; such a record is never accepted into the  *)
(* Dataset.                                                                *)
(***************************************************************************)
C8_MissingFieldFailsAtLoad ==
    (response.ok /\ ~IsDataset /\ pc # "load") =>
        /\ error.at = "load"
        /\ ~Bound("raw_tablecheck_df")

(***************************************************************************)
(* C9.  When several foods (questions 3 and 4) or customers (question 5a)  *)
(* of a restaurant tie at the greatest aggregate, the answer has exactly   *)
(* one row for the restaurant and no error is raised; the row is the tied  *)
(* candidate that comes first in the grouped table, whose rows are in      *)
(* ascending order of the key pair.                                        *)
(***************************************************************************)
TiedAtMax(r, candidates, Agg(_, _)) ==
    {x \in candidates : Agg(r, x) > 0 /\ \A y \in candidates : Agg(r, y) <= Agg(r, x)}

\* The rows of the grouped table are in ascending order of the key.
InKeyOrder(grouped, by) ==
    \A i \in 1..(Len(grouped.rows) - 1) :
        KeyLess(KeyOf(grouped.rows[i], by), KeyOf(grouped.rows[i + 1], by))

\* The answer has one row for restaurant r, and it is the first row of the
\* grouped table that names r and one of the tied candidates.
FirstTiedRowWins(grouped, answer, who, r, tied) ==
    \A first \in {p \in 1..Len(grouped.rows) :
                     /\ grouped.rows[p].restaurant_names = r
                     /\ grouped.rows[p][who] \in tied
                     /\ \A q \in 1..(p - 1) :
                            ~(/\ grouped.rows[q].restaurant_names = r
                              /\ grouped.rows[q][who] \in tied)} :
    \A of_r \in {{i \in 1..Len(answer.rows) : answer.rows[i].restaurant_names = r}} :
        /\ Cardinality(of_r) = 1
        /\ \A i \in of_r : /\ answer.rows[i] = grouped.rows[first]
                           /\ answer.index[i] = grouped.index[first]

C9_TieGivesFirstGroupedRow ==
    /\ error # NoError =>
           ~(/\ IsDataset
             /\ \E r \in RestaurantsPresent :
                    \/ Cardinality(TiedAtMax(r, Foods, OrderCount)) >= 2
                    \/ Cardinality(TiedAtMax(r, Foods, FoodCostSum)) >= 2
                    \/ Cardinality(TiedAtMax(r, Customers,
                                             LAMBDA s, c : VisitCount(s, c))) >= 2)
    /\ (IsDataset /\ pc = "done") =>
        /\ InKeyOrder(globals.food_counts_df, << "restaurant_names", "food_names" >>)
        /\ InKeyOrder(globals.food_sums_df, << "restaurant_names", "food_names" >>)
        /\ InKeyOrder(globals.customer_restarant_counts_df,
                      << "first_name", "restaurant_names" >>)
        /\ \A r \in RestaurantsPresent :
           \A foods \in {TiedAtMax(r, Foods, OrderCount)} :
           \A dishes \in {TiedAtMax(r, Foods, FoodCostSum)} :
           \A visitors \in {TiedAtMax(r, Customers, LAMBDA s, c : VisitCount(s, c))} :
               /\ Cardinality(foods) >= 2 =>
                      FirstTiedRowWins(globals.food_counts_df,
                                       globals.most_popular_dishes_df,
                                       "food_names", r, foods)
               /\ Cardinality(dishes) >= 2 =>
                      FirstTiedRowWins(globals.food_sums_df,
                                       globals.most_profitable_dishes_df,
                                       "food_names", r, dishes)
               /\ Cardinality(visitors) >= 2 =>
                      FirstTiedRowWins(globals.customer_restarant_counts_df,
                                       globals.customer_restarant_max_count_df,
                                       "first_name", r, visitors)

\* In one restaurant two foods tie on orders and on summed cost and two
\* customers tie on visits; the fetched rows name the later food and the later
\* customer first, and the answers name the earlier ones.
C9_Witness ==
    /\ IsDataset
    /\ pc = "done"
    /\ Len(Data) = 2
    /\ Data[1] = [first_name |-> "Michael", restaurant_names |-> Target,
                  food_names |-> "sushi", food_cost |-> 1001]
    /\ Data[2] = [first_name |-> "Arthur", restaurant_names |-> Target,
                  food_names |-> "chai", food_cost |-> 1001]
    /\ Len(globals.most_popular_dishes_df.rows) = 1
    /\ globals.most_popular_dishes_df.rows[1].food_names = "chai"
    /\ globals.most_profitable_dishes_df.rows[1].food_names = "chai"
    /\ globals.customer_restarant_max_count_df.rows[1].first_name = "Arthur"

(***************************************************************************)
(* C10.  After the load no step changes the Dataset: it keeps the rows, in *)
(* the order, it had right after the load; and no step changes a table an  *)
(* earlier step has bound or rendered.                                     *)
(***************************************************************************)
C10_QueriesOnlyRead ==
    [][/\ \A n \in DOMAIN globals : n \in DOMAIN globals' /\ globals'[n] = globals[n]
       /\ ("raw_tablecheck_df" \in DOMAIN globals') =>
              globals'.raw_tablecheck_df.rows = response.data
       /\ Len(rendered) <= Len(rendered')
       /\ SubSeq(rendered', 1, Len(rendered)) = rendered]_vars

\* A Dataset of different rows after all questions have answered.
C10_Witness ==
    /\ IsDataset
    /\ pc = "done"
    /\ Len(Data) >= 2
    /\ Data[1] # Data[2]
    /\ Data[1].restaurant_names # Target
    /\ globals.raw_tablecheck_df.rows = Data
    /\ Len(globals.rest_a_end_ot_uni_df.rows) < Len(Data)

====
